---- MODULE Spec2Model ----
(***************************************************************************)
(* Session state machine of ble-connect.py: the scan/selection loop        *)
(* (scan_for_ble), the characteristic index (list_available_               *)
(* characteristics), the connected command loop (interact_with_device)     *)
(* and the outer loop (main), together with the BLE transport they call.   *)
(*                                                                         *)
(* An input line is modelled as the sequence of its whitespace-separated   *)
(* tokens (what strip() and split() leave); lower(), isdigit() and int()   *)
(* are tables over the tokens.  input() is a blocking call made on the     *)
(* event-loop thread: while the program sits at a prompt no callback of    *)
(* the event loop runs.  Callbacks queued on the loop run when a handler   *)
(* suspends in an await on the transport.                                  *)
(*                                                                         *)
(* An interrupt is KeyboardInterrupt raised in input(), the place where    *)
(* lines 54 and 196 catch it.  The transport's disconnect is best-effort   *)
(* and does not raise.                                                     *)
(***************************************************************************)
EXTENDS Integers, Sequences, FiniteSets, TLC

(* ---------------------------- bounds ----------------------------------- *)
MaxDevices == 2
MaxCalls == 3
MaxPending == 1
MaxChars == 3

(* -------------------------- the radio world ---------------------------- *)
Addresses == {"AA:BB", "CC:DD", "EE:FF"}

Char(u, p) == [uuid |-> u, properties |-> p]

Service(u, cs) == [uuid |-> u, characteristics |-> cs]

\* What each peripheral enumerates once connected (client.services).
Peripheral(addr) ==
  CASE addr = "AA:BB" ->
         << Service("1800", << Char("2a00", {"read"}),
                               Char("2A19", {"notify"}),
                               Char("2a05", {"write"}) >>) >>
    [] addr = "CC:DD" ->
         << Service("180d", << Char("2A37", {"notify", "read"}) >>),
            Service("180f", << Char("2a38", {"write", "write-without-response"}),
                               Char("2a39", {"indicate"}) >>) >>
    [] OTHER ->
         << Service("1801", << Char("2a05", {"write"}) >>) >>

RECURSIVE SeqsUpTo(_, _)
\* All sequences over S of length at most n.
SeqsUpTo(S, n) ==
  IF n = 0 THEN {<<>>}
  ELSE LET shorter == SeqsUpTo(S, n - 1)
       IN  shorter \cup {Append(s, x) : s \in shorter, x \in S}

\* BleakScanner.discover reports each address at most once.
ScanResults ==
  {s \in SeqsUpTo(Addresses, MaxDevices) :
     \A i, j \in 1..Len(s) : i # j => s[i] # s[j]}

(* --------------------------- str methods ------------------------------- *)
\* str.lower()
Lower(s) ==
  CASE s = "HELP" -> "help"
    [] s = "Read" -> "read"
    [] s = "2A19" -> "2a19"
    [] s = "2A37" -> "2a37"
    [] OTHER -> s

\* str.isdigit(): "sup2" stands for the one-character string U+00B2
\* (superscript two), a digit for isdigit() that int() rejects.
IsDigit(s) == s \in {"0", "1", "5", "sup2"}

\* int() raises ValueError on these isdigit() strings.
IntRaises(s) == s = "sup2"

\* int()
IntOf(s) ==
  CASE s = "0" -> 0
    [] s = "1" -> 1
    [] s = "5" -> 5
    [] OTHER -> -1

\* The lines an operator may type, as token sequences.
Lines ==
  { <<>>, <<"HELP">>, <<"list">>, <<"quit">>, <<"exit">>, <<"rescan">>,
    <<"refresh">>, <<"0">>, <<"1">>, <<"5">>, <<"sup2">>, <<"0", "1">>,
    <<"read">>, <<"Read", "0">>, <<"read", "1">>, <<"read", "5">>,
    <<"read", "sup2">>, <<"subscribe", "0">>, <<"subscribe", "1">>,
    <<"subscribe", "x">> }

\* input(...).strip().lower() followed by split()
Parts(line) == [i \in 1..Len(line) |-> Lower(line[i])]

(* ------------------------------ state ---------------------------------- *)
VARIABLES
  pc,               \* where the program is: scanning, select, connecting,
                    \* connected, terminated, crashed
  devices,          \* scan_for_ble: result of the last discover
  client,           \* address of the BleakClient of line 133, or "none"
  link,             \* transport: the radio link of the open client is up
  services,         \* client.services
  actionable_chars, \* interact_with_device: the index built at connect
  subscribed_chars, \* module global, line 9
  registered,       \* transport: identifiers with notifications started
  pending,          \* event loop: notification callbacks queued, not yet run
  calls,            \* transport calls since a device list was last displayed
  event,            \* what the last step consumed
  output            \* what the last step printed

\* A local of a function that has returned holds nothing: devices after
\* scan_for_ble returns, client.services and actionable_chars after
\* interact_with_device returns.

vars == << pc, devices, client, link, services, actionable_chars,
           subscribed_chars, registered, pending, calls, event, output >>

Call(op, arg) == [op |-> op, arg |-> arg]

Event(kind, line) == [kind |-> kind, line |-> line]

\* notification_handler, run once for every callback the loop has queued
notification_handler(queue) == [i \in 1..Len(queue) |-> "notification"]

Init ==
  /\ pc = "scanning"
  /\ devices = <<>>
  /\ client = "none"
  /\ link = FALSE
  /\ services = <<>>
  /\ actionable_chars = <<>>
  /\ subscribed_chars = {}
  /\ registered = {}
  /\ pending = <<>>
  /\ calls = << Call("discover", "") >>
  /\ event = Event("start", <<>>)
  /\ output = << "scanning" >>

(* ------------------------- scan_for_ble -------------------------------- *)
\* Line 27 extending the list of the previous scan.
ReplaceMerges(old, found) == old \o found

\* Line 27: devices is bound to the list discover returned.
Replace(old, found) == found

\* Lines 27-34: discover returns; the list (or the notice) is printed.
\* The event records the list found and the one held until then.
DiscoverDone ==
  /\ pc = "scanning"
  /\ \E found \in ScanResults :
       /\ devices' = Replace(devices, found)
       /\ output' = IF found = <<>> THEN << "no_devices" >> ELSE << "device_list" >>
       /\ event' = [kind |-> "discover_done", line |-> found,
                     before |-> devices]
  /\ pc' = "select"
  /\ calls' = <<>>
  /\ UNCHANGED << client, link, services, actionable_chars,
                  subscribed_chars, registered, pending >>

\* Line 27: discover raises; nothing in scan_for_ble or main catches it.
DiscoverError ==
  /\ pc = "scanning"
  /\ pc' = "crashed"
  /\ event' = Event("discover_error", <<>>)
  /\ output' = << "traceback" >>
  /\ UNCHANGED << devices, client, link, services, actionable_chars,
                  subscribed_chars, registered, pending, calls >>

\* choice = input(...).strip().lower(): the whole line is one string, so a
\* line of several tokens equals none of the commands and is no digit string.
Choice(line) == IF Len(line) = 1 THEN Lower(line[1]) ELSE "other"

ScanKeep == UNCHANGED << devices, client, link, services,
                         actionable_chars, subscribed_chars, registered,
                         pending, calls >>

\* Lines 39-40
ScanHelp(line) ==
  /\ pc = "select"
  /\ Choice(line) = "help"
  /\ pc' = "select"
  /\ event' = Event("line", line)
  /\ output' = << "scan_help" >>
  /\ ScanKeep

\* Lines 41-43, then main lines 222-223
ScanQuit(line) ==
  /\ pc = "select"
  /\ Choice(line) \in {"quit", "exit"}
  /\ pc' = "terminated"
  /\ devices' = <<>>
  /\ event' = Event("line", line)
  /\ output' = << "exiting" >>
  /\ UNCHANGED << client, link, services, actionable_chars,
                  subscribed_chars, registered, pending, calls >>

\* Lines 44-45, then lines 26-27 again
ScanRefresh(line) ==
  /\ pc = "select"
  /\ Choice(line) = "refresh"
  /\ pc' = "scanning"
  /\ calls' = << Call("discover", "") >>
  /\ event' = Event("line", line)
  /\ output' = << "scanning" >>
  /\ UNCHANGED << devices, client, link, services, actionable_chars,
                  subscribed_chars, registered, pending >>

\* Line 49 returning the first device whatever the number.
ResolveFirst(devs, index) == devs[1]

\* Line 49: devices[index].address
Resolve(devs, index) == devs[index + 1]

\* Lines 46-49, then main line 224 and line 133: the connect is issued.
ScanSelect(line) ==
  /\ pc = "select"
  /\ IsDigit(Choice(line)) /\ ~IntRaises(Choice(line))
  /\ LET index == IntOf(Choice(line))
     IN  /\ 0 <= index /\ index < Len(devices)
         /\ client' = Resolve(devices, index)
         /\ calls' = << Call("connect", Resolve(devices, index)) >>
  /\ pc' = "connecting"
  /\ devices' = <<>>
  /\ event' = Event("line", line)
  /\ output' = <<>>
  /\ UNCHANGED << link, services, actionable_chars,
                  subscribed_chars, registered, pending >>

\* Lines 50-51
ScanBadNumber(line) ==
  /\ pc = "select"
  /\ IsDigit(Choice(line)) /\ ~IntRaises(Choice(line))
  /\ ~(0 <= IntOf(Choice(line)) /\ IntOf(Choice(line)) < Len(devices))
  /\ pc' = "select"
  /\ event' = Event("line", line)
  /\ output' = << "invalid_device_number" >>
  /\ ScanKeep

\* Line 47: int() raises ValueError, which line 54 does not catch.
ScanValueError(line) ==
  /\ pc = "select"
  /\ IsDigit(Choice(line)) /\ IntRaises(Choice(line))
  /\ pc' = "crashed"
  /\ event' = Event("line", line)
  /\ output' = << "traceback" >>
  /\ ScanKeep

\* Lines 52-53
ScanInvalid(line) ==
  /\ pc = "select"
  /\ Choice(line) \notin {"help", "quit", "exit", "refresh"}
  /\ ~IsDigit(Choice(line))
  /\ pc' = "select"
  /\ event' = Event("line", line)
  /\ output' = << "invalid_input" >>
  /\ ScanKeep

\* Lines 54-56, then main lines 222-223
ScanInterrupt ==
  /\ pc = "select"
  /\ pc' = "terminated"
  /\ devices' = <<>>
  /\ event' = Event("interrupt", <<>>)
  /\ output' = << "exiting" >>
  /\ UNCHANGED << client, link, services, actionable_chars,
                  subscribed_chars, registered, pending, calls >>

(* ------------------ list_available_characteristics --------------------- *)
\* Line 67 with the indicate test left out.
IsActionableNoIndicate(props) == "read" \in props \/ "notify" \in props

\* Line 67
IsActionable(props) ==
  "read" \in props \/ "notify" \in props \/ "indicate" \in props

RECURSIVE CharLoop(_, _)
\* Lines 65-72: the inner loop, appending to the list built so far.
CharLoop(chars, acc) ==
  IF chars = <<>> THEN acc
  ELSE LET char == Head(chars)
       IN  CharLoop(Tail(chars),
                    IF IsActionable(char.properties)
                    THEN Append(acc, << char.uuid, char.properties >>)
                    ELSE acc)

RECURSIVE ServiceLoop(_, _)
\* Lines 63-72: the outer loop.
ServiceLoop(svcs, acc) ==
  IF svcs = <<>> THEN acc
  ELSE ServiceLoop(Tail(svcs), CharLoop(Head(svcs).characteristics, acc))

\* Lines 58-78: the value returned.
list_available_characteristics(svcs) == ServiceLoop(svcs, <<>>)

\* Lines 60, 73-77: what the call prints.
ListingOutput(svcs) ==
  << "listing",
     IF list_available_characteristics(svcs) = <<>> THEN "none_found" ELSE "count" >>

(* -------------------- main and the end of a session -------------------- *)
\* Line 206 returning False, as line 169 does, instead of breaking.
SessionResultInterruptRescans(how) == how = "exit"

\* Lines 169, 211, 214, 217: the value interact_with_device returns.
SessionResult(how) == how \in {"exit", "interrupt"}

\* Lines 225-226 breaking whatever interact_with_device returned.
MainAfterAlwaysEnds(success) == "terminated"

\* Lines 225-227 and 220-221: main ends on success, else scans again.
MainAfter(success) == IF success THEN "terminated" ELSE "scanning"

\* Leaving interact_with_device with result `success`, having made the
\* transport calls `made` and printed `out`; main then ends or rescans.
\* An open link is closed by the disconnect among `made`.
Leave(success, made, out) ==
  /\ pc' = MainAfter(success)
  /\ calls' = IF MainAfter(success) = "scanning"
              THEN Append(calls \o made, Call("discover", ""))
              ELSE calls \o made
  /\ output' = IF MainAfter(success) = "scanning"
               THEN out \o << "returning", "scanning" >>
               ELSE out
  /\ client' = "none"
  /\ link' = (link /\ \A i \in 1..Len(made) : made[i].op # "disconnect")
  /\ services' = <<>>
  /\ actionable_chars' = <<>>
  /\ registered' = {}
  /\ pending' = <<>>

(* ------------------------ interact_with_device ------------------------- *)
\* Lines 133-137: the connect succeeds, the index is built once.
ConnectOk ==
  /\ pc = "connecting"
  /\ pc' = "connected"
  /\ client' = client
  /\ link' = TRUE
  /\ services' = Peripheral(client)
  /\ actionable_chars' = list_available_characteristics(Peripheral(client))
  /\ registered' = {}
  /\ pending' = <<>>
  /\ event' = Event("connect_ok", <<>>)
  /\ output' = << "connected" >> \o ListingOutput(Peripheral(client)) \o << "ready" >>
  /\ UNCHANGED << devices, subscribed_chars, calls >>

\* Lines 212-214: the connect exceeds its timeout.
ConnectTimeout ==
  /\ pc = "connecting"
  /\ event' = Event("connect_timeout", <<>>)
  /\ Leave(SessionResult("timeout"), <<>>, << "timeout" >>)
  /\ UNCHANGED << devices, subscribed_chars >>

\* Lines 215-217: the connect raises BleakError.
ConnectError ==
  /\ pc = "connecting"
  /\ event' = Event("connect_error", <<>>)
  /\ Leave(SessionResult("error"), <<>>, << "connection_error" >>)
  /\ UNCHANGED << devices, subscribed_chars >>

\* Line 146
Command(line) == IF Len(line) > 0 THEN Parts(line)[1] ELSE ""

CmdKeep == UNCHANGED << pc, devices, client, link, services,
                        actionable_chars, subscribed_chars, registered,
                        pending, calls >>

\* Line 61 appending to the list the caller already holds.
ReprintedAppends(chars, svcs) == chars \o list_available_characteristics(svcs)

\* Lines 87, 106, 175, 180, 188: the call builds a list of its own (line 61)
\* and the caller drops the value returned; the caller's list is as it was.
Reprinted(chars, svcs) == chars

\* A command that reprints the listing and does nothing else.
CmdReprint ==
  /\ actionable_chars' = Reprinted(actionable_chars, services)
  /\ UNCHANGED << pc, devices, client, link, services, subscribed_chars,
                  registered, pending, calls >>

\* Lines 142-143
CmdEmpty(line) ==
  /\ pc = "connected"
  /\ Len(line) = 0
  /\ event' = Event("line", line)
  /\ output' = <<>>
  /\ CmdKeep

\* Lines 171-172
CmdHelp(line) ==
  /\ pc = "connected"
  /\ Command(line) = "help"
  /\ event' = Event("line", line)
  /\ output' = << "help" >>
  /\ CmdKeep

\* Lines 174-175: the listing is printed; the value returned is dropped.
CmdList(line) ==
  /\ pc = "connected"
  /\ Command(line) = "list"
  /\ event' = Event("line", line)
  /\ output' = ListingOutput(services)
  /\ CmdReprint

\* Lines 193-194
CmdInvalid(line) ==
  /\ pc = "connected"
  /\ Len(line) > 0
  /\ Command(line) \notin {"quit", "exit", "rescan", "help", "list", "subscribe", "read"}
  /\ event' = Event("line", line)
  /\ output' = << "invalid_command" >>
  /\ CmdKeep

\* Lines 178 and 186
WellFormed(line) == Len(line) = 2 /\ IsDigit(Parts(line)[2])

\* Lines 178-180 and 186-188
CmdMalformed(line) ==
  /\ pc = "connected"
  /\ Command(line) \in {"subscribe", "read"}
  /\ ~WellFormed(line)
  /\ event' = Event("line", line)
  /\ output' = << "invalid_format" >> \o ListingOutput(services)
  /\ CmdReprint

\* Lines 182 and 190: int() raises ValueError; lines 207-208 print it.
CmdValueError(line) ==
  /\ pc = "connected"
  /\ Command(line) \in {"subscribe", "read"}
  /\ WellFormed(line) /\ IntRaises(Parts(line)[2])
  /\ event' = Event("line", line)
  /\ output' = << "error" >>
  /\ CmdKeep

\* Lines 182 and 190
Index(line) == IntOf(Parts(line)[2])

\* Lines 82-88 and 101-107: the checks made before the entry is looked up.
IndexCheck(index, chars) ==
  IF chars = <<>> THEN "none_available"
  ELSE IF index < 0 \/ index >= Len(chars) THEN "invalid_number"
  ELSE "ok"

\* Lines 89 and 108: actionable_chars[index], a (uuid, props) pair.
Entry(index, chars) == chars[index + 1]

\* Line 90 letting every entry through.
CanReadAlways(props) == TRUE

\* Line 90
CanRead(props) == "read" \in props

\* Line 109
CanSubscribe(props) == "notify" \in props \/ "indicate" \in props

Numbered(line, cmd) ==
  /\ pc = "connected"
  /\ Command(line) = cmd
  /\ WellFormed(line) /\ ~IntRaises(Parts(line)[2])

\* Lines 86-88 and 105-107 without the call that reprints the listing.
RejectionNoListing(line, able) ==
  LET check == IndexCheck(Index(line), actionable_chars)
  IN  IF check = "none_available" THEN << "none_available" >>
      ELSE IF check = "invalid_number" THEN << "invalid_number" >>
      ELSE IF ~able THEN << "unsupported" >>
      ELSE <<>>

\* Lines 82-92 and 101-111: the command is turned away before the transport.
Rejection(line, able) ==
  LET check == IndexCheck(Index(line), actionable_chars)
  IN  IF check = "none_available" THEN << "none_available" >>
      ELSE IF check = "invalid_number"
           THEN << "invalid_number" >> \o ListingOutput(services)
      ELSE IF ~able THEN << "unsupported" >>
      ELSE <<>>

\* Lines 80-92: read, turned away.
CmdReadRejected(line) ==
  /\ Numbered(line, "read")
  /\ LET out == Rejection(line,
                  IndexCheck(Index(line), actionable_chars) = "ok"
                  /\ CanRead(Entry(Index(line), actionable_chars)[2]))
     IN  out # <<>> /\ output' = out
  /\ event' = Event("line", line)
  /\ IF IndexCheck(Index(line), actionable_chars) = "invalid_number"
     THEN CmdReprint ELSE CmdKeep

\* Lines 99-111: subscribe, turned away.
CmdSubscribeRejected(line) ==
  /\ Numbered(line, "subscribe")
  /\ LET out == Rejection(line,
                  IndexCheck(Index(line), actionable_chars) = "ok"
                  /\ CanSubscribe(Entry(Index(line), actionable_chars)[2]))
     IN  out # <<>> /\ output' = out
  /\ event' = Event("line", line)
  /\ IF IndexCheck(Index(line), actionable_chars) = "invalid_number"
     THEN CmdReprint ELSE CmdKeep

ReadReady(line) ==
  /\ Numbered(line, "read")
  /\ IndexCheck(Index(line), actionable_chars) = "ok"
  /\ CanRead(Entry(Index(line), actionable_chars)[2])
  /\ Len(calls) < MaxCalls

SubscribeReady(line) ==
  /\ Numbered(line, "subscribe")
  /\ IndexCheck(Index(line), actionable_chars) = "ok"
  /\ CanSubscribe(Entry(Index(line), actionable_chars)[2])
  /\ Len(calls) < MaxCalls

\* Lines 96-97 and 116-117 re-raising out of the command loop.
AfterCallErrorLeaves == "scanning"

\* Lines 96-97 and 116-117: the handler prints the error and returns; the
\* command loop of line 139 goes on to its next input().
AfterCallError == "connected"

\* Lines 93-95: the read returns.  The await lets the queued callbacks run.
CmdReadOk(line) ==
  /\ ReadReady(line)
  /\ link
  /\ LET uuid == Entry(Index(line), actionable_chars)[1]
     IN  calls' = Append(calls, Call("read_gatt_char", uuid))
  /\ pending' = <<>>
  /\ event' = Event("line", line)
  /\ output' = notification_handler(pending) \o << "read_value" >>
  /\ UNCHANGED << pc, devices, client, link, services, actionable_chars,
                  subscribed_chars, registered >>

\* Lines 96-97: the read raises (always, once the link is down).
CmdReadError(line) ==
  /\ ReadReady(line)
  /\ LET uuid == Entry(Index(line), actionable_chars)[1]
     IN  calls' = Append(calls, Call("read_gatt_char", uuid))
  /\ pc' = AfterCallError
  /\ pending' = <<>>
  /\ event' = Event("line", line)
  /\ output' = notification_handler(pending) \o << "error_reading" >>
  /\ UNCHANGED << devices, client, link, services, actionable_chars,
                  subscribed_chars, registered >>

\* Line 114 moved before the await of line 113.
SubscribedAfterAddsFirst(subs, uuid, ok) == subs \cup {Lower(uuid)}

\* Lines 113-117: the add of line 114 runs only when start_notify returned.
SubscribedAfter(subs, uuid, ok) ==
  IF ok THEN subs \cup {Lower(uuid)} ELSE subs

\* Lines 112-115: start_notify returns, the lowered identifier is added.
CmdSubscribeOk(line) ==
  /\ SubscribeReady(line)
  /\ link
  /\ LET uuid == Entry(Index(line), actionable_chars)[1]
     IN  /\ calls' = Append(calls, Call("start_notify", uuid))
         /\ subscribed_chars' = SubscribedAfter(subscribed_chars, uuid, TRUE)
         /\ registered' = registered \cup {Lower(uuid)}
  /\ pending' = <<>>
  /\ event' = Event("line", line)
  /\ output' = notification_handler(pending) \o << "subscribed" >>
  /\ UNCHANGED << pc, devices, client, link, services, actionable_chars >>

\* Lines 116-117: start_notify raises (always, once the link is down).
CmdSubscribeError(line) ==
  /\ SubscribeReady(line)
  /\ LET uuid == Entry(Index(line), actionable_chars)[1]
     IN  /\ calls' = Append(calls, Call("start_notify", uuid))
         /\ subscribed_chars' = SubscribedAfter(subscribed_chars, uuid, FALSE)
  /\ pc' = AfterCallError
  /\ pending' = <<>>
  /\ event' = Event("line", line)
  /\ output' = notification_handler(pending) \o << "error_subscribing" >>
  /\ UNCHANGED << devices, client, link, services, actionable_chars,
                  registered >>

(* ---------------- leaving the command loop: lines 148-169, 196-206 ----- *)
\* subscribed_chars.copy() is iterated in an order the set decides.
Orders(S) ==
  {s \in SeqsUpTo(S, Cardinality(S)) :
     Len(s) = Cardinality(S) /\ \A i, j \in 1..Len(s) : i # j => s[i] # s[j]}

\* Lines 152, 163, 201: one stop_notify for each identifier of the copy.
StopCalls(ord) == [i \in 1..Len(ord) |-> Call("stop_notify", ord[i])]

\* Lines 153, 164, 202: an identifier is removed only after its stop_notify
\* returned; one whose stop_notify raised stays (lines 155-156).
Remaining(subs, failing) == subs \cap failing

\* Lines 154-156
StopOutput(ord, failing) ==
  [i \in 1..Len(ord) |->
     IF ord[i] \in failing THEN "error_unsubscribing" ELSE "unsubscribed"]

\* The unsubscribe loop run after the `async with` block was left.
TeardownCallsDisconnectFirst(ord) ==
  << Call("disconnect", client) >> \o StopCalls(ord)

\* The `async with` block of line 133 left without a disconnect.
TeardownCallsNoDisconnect(ord) == StopCalls(ord)

\* The calls of one way out: the loop's stop_notify calls, then the
\* disconnect made by leaving the `async with` block of line 133.
TeardownCalls(ord) == StopCalls(ord) \o << Call("disconnect", client) >>

\* What a way out prints: the queued callbacks run at its first await,
\* which is the first stop_notify, or the disconnect when there is none.
TeardownOutput(before, ord, failing, after) ==
  IF ord = <<>>
  THEN before \o after \o notification_handler(pending)
  ELSE before \o notification_handler(pending) \o StopOutput(ord, failing) \o after

\* The unsubscribe loop and the exit from the `async with` block.
Teardown(how, before, after) ==
  \E ord \in Orders(subscribed_chars), failing \in SUBSET subscribed_chars :
    /\ ~link => failing = subscribed_chars
    /\ subscribed_chars' = Remaining(subscribed_chars, failing)
    /\ Leave(SessionResult(how), TeardownCalls(ord),
             TeardownOutput(before, ord, failing, after))

\* Lines 148-157, 210-211
CmdExit(line) ==
  /\ pc = "connected"
  /\ Command(line) \in {"quit", "exit"}
  /\ event' = Event("line", line)
  /\ Teardown("exit", <<>>, << "disconnected" >>)
  /\ UNCHANGED devices

\* Lines 159-169
CmdRescan(line) ==
  /\ pc = "connected"
  /\ Command(line) = "rescan"
  /\ event' = Event("line", line)
  /\ Teardown("rescan", <<>>, << "disconnecting_to_rescan" >>)
  /\ UNCHANGED devices

\* Lines 196-206, 210-211: KeyboardInterrupt raised in input().
Interrupt ==
  /\ pc = "connected"
  /\ event' = Event("interrupt", <<>>)
  /\ Teardown("interrupt", << "disconnecting" >>, << "disconnected" >>)
  /\ UNCHANGED devices

(* ----------------------------- transport ------------------------------- *)
\* A subscribed characteristic notifies: the callback of line 113 is queued
\* on the event loop, which is blocked in input() (line 141).
Notify ==
  /\ pc = "connected"
  /\ link
  /\ Len(pending) < MaxPending
  /\ \E sender \in registered : pending' = Append(pending, sender)
  /\ event' = Event("notify", <<>>)
  /\ output' = <<>>
  /\ UNCHANGED << pc, devices, client, link, services, actionable_chars,
                  subscribed_chars, registered, calls >>

\* The peripheral goes away: the link and its registrations are gone.
\* The program registers no disconnect callback and prints nothing.
LinkLost ==
  /\ pc = "connected"
  /\ link
  /\ link' = FALSE
  /\ registered' = {}
  /\ event' = Event("link_lost", <<>>)
  /\ output' = <<>>
  /\ UNCHANGED << pc, devices, client, services, actionable_chars,
                  subscribed_chars, pending, calls >>

(* --------------------------- specification ----------------------------- *)
Next ==
  \/ DiscoverDone
  \/ DiscoverError
  \/ \E line \in Lines : ScanHelp(line)
  \/ \E line \in Lines : ScanQuit(line)
  \/ \E line \in Lines : ScanRefresh(line)
  \/ \E line \in Lines : ScanSelect(line)
  \/ \E line \in Lines : ScanBadNumber(line)
  \/ \E line \in Lines : ScanValueError(line)
  \/ \E line \in Lines : ScanInvalid(line)
  \/ ScanInterrupt
  \/ ConnectOk
  \/ ConnectTimeout
  \/ ConnectError
  \/ \E line \in Lines : CmdEmpty(line)
  \/ \E line \in Lines : CmdHelp(line)
  \/ \E line \in Lines : CmdList(line)
  \/ \E line \in Lines : CmdInvalid(line)
  \/ \E line \in Lines : CmdMalformed(line)
  \/ \E line \in Lines : CmdValueError(line)
  \/ \E line \in Lines : CmdReadRejected(line)
  \/ \E line \in Lines : CmdSubscribeRejected(line)
  \/ \E line \in Lines : CmdReadOk(line)
  \/ \E line \in Lines : CmdReadError(line)
  \/ \E line \in Lines : CmdSubscribeOk(line)
  \/ \E line \in Lines : CmdSubscribeError(line)
  \/ \E line \in Lines : CmdExit(line)
  \/ \E line \in Lines : CmdRescan(line)
  \/ Interrupt
  \/ Notify
  \/ LinkLost

Spec == Init /\ [][Next]_vars

(* -------------- the index over every enumeration: IndexSpec ------------ *)
\* Capability sets a characteristic may report (char.properties).
PropSets ==
  { {"read"}, {"write"}, {"notify"}, {"indicate"},
    {"write", "write-without-response"}, {"read", "write", "notify"} }

\* Identifiers by position of discovery.
Uuids == << "2a00", "2A19", "2a05", "2A37", "2a38", "2a39" >>

CharsOf(ps, from, to) ==
  [i \in 1..(to - from + 1) |-> Char(Uuids[from + i - 1], ps[from + i - 1])]

\* Every enumeration of at most MaxChars characteristics in no, one or two
\* services (a service may be empty).
Layouts ==
  {<<>>}
  \cup { << Service("1800", CharsOf(ps, 1, Len(ps))) >> :
           ps \in SeqsUpTo(PropSets, MaxChars) }
  \cup { << Service("1800", CharsOf(c[1], 1, c[2])),
            Service("180f", CharsOf(c[1], c[2] + 1, Len(c[1]))) >> :
           c \in { d \in SeqsUpTo(PropSets, MaxChars) \X (0..MaxChars) :
                     d[2] <= Len(d[1]) } }

IndexInit ==
  /\ pc = "connecting"
  /\ devices = <<>>
  /\ client = "AA:BB"
  /\ link = FALSE
  /\ services \in Layouts
  /\ actionable_chars = <<>>
  /\ subscribed_chars = {}
  /\ registered = {}
  /\ pending = <<>>
  /\ calls = << Call("connect", "AA:BB") >>
  /\ event = Event("line", << "0" >>)
  /\ output = <<>>

\* Lines 134-137 over the enumeration `services`.
IndexBuild ==
  /\ pc = "connecting"
  /\ pc' = "connected"
  /\ link' = TRUE
  /\ actionable_chars' = list_available_characteristics(services)
  /\ event' = Event("connect_ok", <<>>)
  /\ output' = << "connected" >> \o ListingOutput(services) \o << "ready" >>
  /\ UNCHANGED << devices, client, services, subscribed_chars, registered,
                  pending, calls >>

IndexNext == IndexBuild

IndexSpec == IndexInit /\ [][IndexNext]_vars

(* ------------------------------ claims --------------------------------- *)
Last(s) == s[Len(s)]

\* The calls a step added to the log.
Added == SubSeq(calls', Len(calls) + 1, Len(calls'))

\* `made` holds exactly one stop_notify for each identifier of `subs`, and
\* they are its first calls.
OneStopEach(made, subs) ==
  /\ Len(made) >= Cardinality(subs)
  /\ \A i \in 1..Cardinality(subs) : made[i].op = "stop_notify" /\ made[i].arg \in subs
  /\ \A u \in subs :
       Cardinality({i \in 1..Cardinality(subs) : made[i].arg = u}) = 1

\* C1: on every way out of the connected loop the subscription set is empty
\* once the unsubscribe loop has run, whatever the stop_notify calls did.
C1_EmptyAfterUnsubscribeAll ==
  [][(pc = "connected" /\ pc' # "connected") => subscribed_chars' = {}]_vars

\* C2: on rescan the transport sees, after the session's subscribe calls,
\* exactly one unsubscribe call for every subscribed identifier, then the
\* disconnect, then the discover of the fresh scan; the device list is
\* displayed only by the step that follows that discover.
C2_RescanOrder ==
  [][ /\ (pc = "connected" /\ event'.kind = "line" /\ Command(event'.line) = "rescan")
         => /\ \A i \in 1..Len(calls) :
                 calls[i].op \in {"connect", "start_notify", "read_gatt_char"}
            /\ registered \subseteq subscribed_chars
            /\ OneStopEach(Added, subscribed_chars)
            /\ Len(Added) = Cardinality(subscribed_chars) + 2
            /\ Added[Len(Added) - 1] = Call("disconnect", client)
            /\ Added[Len(Added)] = Call("discover", "")
            /\ pc' = "scanning"
            /\ "device_list" \notin {output'[i] : i \in 1..Len(output')}
      /\ (pc' = "select" /\ pc # "select")
         => /\ pc = "scanning"
            /\ Last(calls).op = "discover"
            /\ output' \in { << "device_list" >>, << "no_devices" >> }
    ]_vars

C2_Witness ==
  /\ pc = "scanning"
  /\ event.kind = "line" /\ Command(event.line) = "rescan"
  /\ \E i, j \in 1..(Len(calls) - 1) :
       /\ i < j
       /\ calls[i].op = "start_notify"
       /\ calls[j] = Call("stop_notify", Lower(calls[i].arg))
       /\ calls[j + 1].op = "disconnect"

C4_NoSecondSubscribeCall ==
  [][(Len(calls') = Len(calls) + 1 /\ Last(calls').op = "start_notify")
       => Lower(Last(calls').arg) \notin (subscribed_chars \cap registered)]_vars

\* C5: when a connection enters the connected state the subscription set
\* is empty, whatever happened in earlier sessions.
C5_EmptyAtConnect ==
  (pc = "connected" /\ event.kind = "connect_ok") => subscribed_chars = {}

\* C6: every identifier of the subscription set has an active notify or
\* indicate registration on the current connection.
C6_SubscribedAreRegistered ==
  \A u \in subscribed_chars : client # "none" /\ link /\ u \in registered

\* C7: while the command loop waits at its prompt, no notification the
\* transport has delivered is still unprinted.
C7_DeliveredWhileWaiting ==
  pc = "connected" => pending = <<>>

\* C8: a connect that times out or fails is printed, builds no index,
\* enters no command loop, and the program goes back to a fresh scan.
C8_ConnectFailureRescans ==
  event.kind \in {"connect_timeout", "connect_error"}
    => /\ pc = "scanning"
       /\ output[1] = (IF event.kind = "connect_timeout"
                       THEN "timeout" ELSE "connection_error")
       /\ \A i \in 1..Len(output) : output[i] \notin {"listing", "ready", "connected"}
       /\ actionable_chars = <<>>
       /\ client = "none"
       /\ Len(calls) = 2 /\ calls[1].op = "connect" /\ calls[2] = Call("discover", "")

C8_Witness ==
  /\ event.kind = "connect_timeout"
  /\ pc = "scanning"
  /\ calls[1] = Call("connect", "CC:DD")
  /\ output = << "timeout", "returning", "scanning" >>

RECURSIVE Flatten(_)
Flatten(svcs) ==
  IF svcs = <<>> THEN <<>>
  ELSE Head(svcs).characteristics \o Flatten(Tail(svcs))

\* C10: the index built at connect holds exactly the characteristics whose
\* capability set meets {read, notify, indicate}, in discovery order, at
\* indices 0..k-1, and none of the others.
C10_IndexExact ==
  pc = "connected" =>
    LET all == Flatten(services)
        keep == {i \in 1..Len(all) :
                   all[i].properties \cap {"read", "notify", "indicate"} # {}}
    IN  /\ Len(actionable_chars) = Cardinality(keep)
        /\ \A i \in keep :
             actionable_chars[Cardinality({j \in keep : j <= i})]
               = << all[i].uuid, all[i].properties >>

C10_Witness ==
  /\ pc = "connected"
  /\ Len(services) = 2
  /\ Len(Flatten(services)) = 3
  /\ Len(actionable_chars) = 2
  /\ Flatten(services)[1].properties = {"write"}
  /\ actionable_chars[1][2] = {"indicate"}

\* The step consumed a line `cmd <n>` at the connected prompt, n a decimal
\* number.
Asked(cmd) ==
  /\ pc = "connected"
  /\ event'.kind = "line"
  /\ Len(event'.line) = 2
  /\ Lower(event'.line[1]) = cmd
  /\ Lower(event'.line[2]) \in {"0", "1", "5"}

\* The number of that line.
AskedIndex == IntOf(Lower(event'.line[2]))

\* C11: read on a valid index without the read capability, or subscribe on
\* one with neither notify nor indicate, makes no transport call, reports
\* the mismatch, leaves the subscription set as it was and stays in the loop.
C11_CapabilityMismatch ==
  [][ /\ (/\ Asked("read")
          /\ AskedIndex < Len(actionable_chars)
          /\ "read" \notin actionable_chars[AskedIndex + 1][2])
         => /\ calls' = calls
            /\ output' = << "unsupported" >>
            /\ subscribed_chars' = subscribed_chars
            /\ registered' = registered
            /\ pc' = "connected"
      /\ (/\ Asked("subscribe")
          /\ AskedIndex < Len(actionable_chars)
          /\ actionable_chars[AskedIndex + 1][2] \cap {"notify", "indicate"} = {})
         => /\ calls' = calls
            /\ output' = << "unsupported" >>
            /\ subscribed_chars' = subscribed_chars
            /\ registered' = registered
            /\ pc' = "connected"
    ]_vars

C11_Witness ==
  /\ pc = "connected"
  /\ event = Event("line", << "read", "1" >>)
  /\ actionable_chars[2] = << "2A19", {"notify"} >>
  /\ output = << "unsupported" >>

\* The step consumed a read or subscribe line at the connected prompt whose
\* argument is missing or is no number.
AskedMalformed ==
  /\ pc = "connected"
  /\ event'.kind = "line"
  /\ Len(event'.line) \in {1, 2}
  /\ Lower(event'.line[1]) \in {"read", "subscribe"}
  /\ Len(event'.line) = 2 => Lower(event'.line[2]) \notin {"0", "1", "5", "sup2"}

Selected ==
  /\ pc = "select"
  /\ event'.kind = "line"
  /\ Len(event'.line) = 1
  /\ event'.line[1] \in {"0", "1", "5"}

\* The number of that line.
SelectedIndex == IntOf(event'.line[1])

\* C13: a number within the bounds of the device list connects to exactly
\* the address displayed at that index; a number out of bounds is reported,
\* no connect is attempted and the device list is kept.
C13_SelectionResolves ==
  [][ /\ (Selected /\ SelectedIndex < Len(devices))
         => /\ pc' = "connecting"
            /\ client' = devices[SelectedIndex + 1]
            /\ calls' = << Call("connect", devices[SelectedIndex + 1]) >>
      /\ (Selected /\ SelectedIndex >= Len(devices))
         => /\ pc' = "select"
            /\ output' = << "invalid_device_number" >>
            /\ devices' = devices
            /\ calls' = calls
            /\ client' = "none"
    ]_vars

C13_Witness ==
  /\ pc = "connecting"
  /\ event = Event("line", << "1" >>)
  /\ client = "CC:DD"
  /\ calls = << Call("connect", "CC:DD") >>

\* C14: after a transport call has failed (discover, connect, read,
\* subscribe, unsubscribe) the program has not ended on an error: control is
\* back at a prompt or a scan, or the operator had asked to leave.
C14_AdapterFailureKeepsPrompt ==
  (\/ event.kind \in {"discover_error", "connect_timeout", "connect_error"}
   \/ \E i \in 1..Len(output) :
        output[i] \in {"error_reading", "error_subscribing", "error_unsubscribing"})
    => pc # "crashed"

\* C15: no input line crashes the scan loop or the command loop, and only
\* quit and exit end the program.
C15_NoLineCrashes ==
  event.kind = "line"
    => /\ pc # "crashed"
       /\ pc = "terminated" => Command(event.line) \in {"quit", "exit"}

\* C16: the index is built once per connection, at the connect, and no
\* command of the connected loop changes it: list, help and the error paths
\* that reprint the listing leave every index on the same identifier.
C16_IndexStable ==
  [][ /\ (pc = "connected" /\ pc' = "connected")
         => actionable_chars' = actionable_chars
      /\ (actionable_chars' # actionable_chars)
         => \/ pc = "connecting" /\ event'.kind = "connect_ok"
            \/ pc = "connected" /\ pc' # "connected" /\ actionable_chars' = <<>>
    ]_vars

C16_Witness ==
  /\ pc = "connected"
  /\ event = Event("line", << "list" >>)
  /\ output = << "listing", "count" >>
  /\ actionable_chars = << << "2a00", {"read"} >>, << "2A19", {"notify"} >> >>

\* C17: when the transport call of a read or subscribe command fails, the
\* error is reported, the subscription set is what it was before the
\* command, and the command loop continues.
C17_FailedCallKeepsSet ==
  [][(/\ pc = "connected"
      /\ Len(calls') = Len(calls) + 1
      /\ Last(calls').op \in {"read_gatt_char", "start_notify"}
      /\ Last(output') \notin {"read_value", "subscribed"})
       => /\ Last(output') = (IF Last(calls').op = "read_gatt_char"
                              THEN "error_reading" ELSE "error_subscribing")
          /\ subscribed_chars' = subscribed_chars
          /\ actionable_chars' = actionable_chars
          /\ client' = client
          /\ pc' = "connected"
    ]_vars

C17_Witness ==
  /\ pc = "connected"
  /\ link
  /\ Len(output) > 0 /\ Last(output) = "error_subscribing"
  /\ Len(calls) > 0 /\ Last(calls) = Call("start_notify", "2a39")
  /\ subscribed_chars = {"2a37"}

\* C18: a connection whose actionable list is empty still enters the
\* command loop, and there every read or subscribe with a number reports
\* that nothing is available, makes no transport call and leaves the
\* subscription set empty.
C18_EmptyListingDisables ==
  [][ /\ (pc = "connecting" /\ pc' = "connected"
            /\ actionable_chars' = <<>>)
         => \E i \in 1..Len(output') : output'[i] = "none_found"
      /\ ((Asked("read") \/ Asked("subscribe")) /\ actionable_chars = <<>>)
         => /\ Last(output') = "none_available"
            /\ calls' = calls
            /\ pc' = "connected"
            /\ subscribed_chars' = {}
    ]_vars

\* C19: every refresh, and every return to the scan loop after a rescan or
\* a failed connect, runs a new scan whose result replaces the device list
\* (no merge); the list then stays as scanned, and a number entered
\* afterwards is checked and resolved against it, also when it is empty.
C19_ScanReplaces ==
  [][ /\ (pc = "scanning" /\ pc' = "select")
         => /\ event'.kind = "discover_done"
            /\ devices' = event'.line
      /\ (pc = "select" /\ event'.kind = "line"
            /\ Len(event'.line) = 1 /\ Lower(event'.line[1]) = "refresh")
         => /\ pc' = "scanning"
            /\ Last(calls') = Call("discover", "")
      /\ (pc \in {"connecting", "connected"}
            /\ (Len(output') > 0 /\ Last(output') = "scanning"))
         => /\ pc' = "scanning"
            /\ Last(calls') = Call("discover", "")
      /\ pc \in {"connecting", "connected"} => pc' # "select"
      /\ (pc = "select" /\ pc' = "select") => devices' = devices
      /\ (Selected /\ SelectedIndex < Len(devices))
         => /\ pc' = "connecting"
            /\ Last(calls') = Call("connect", devices[SelectedIndex + 1])
      /\ (Selected /\ SelectedIndex >= Len(devices))
         => /\ pc' = "select"
            /\ output' = << "invalid_device_number" >>
            /\ calls' = calls
    ]_vars

\* A refresh of a list of two finds nothing: the list shown is empty.
C19_Witness ==
  /\ pc = "select"
  /\ event.kind = "discover_done"
  /\ Len(event.before) = 2
  /\ event.line = <<>>
  /\ devices = <<>>
  /\ output = << "no_devices" >>

\* C20: at most one connection is open at a time and none is open in the
\* scan loop or once the program has ended: every way out of the connected
\* state disconnects the client it opened before the next scan starts or
\* the process ends, and a connect is issued only while nothing is open.
C20_OneConnection ==
  [][ /\ pc' \notin {"connecting", "connected"}
         => /\ ~link'
            /\ client' = "none"
            /\ registered' = {}
      /\ (pc = "connected" /\ pc' # "connected")
         => \E i \in (Len(calls) + 1)..Len(calls') :
              /\ calls'[i] = Call("disconnect", client)
              /\ \A j \in (Len(calls) + 1)..i : calls'[j].op # "discover"
      /\ (calls' # calls /\ Len(calls') > 0 /\ Last(calls').op = "connect")
         => /\ ~link
            /\ client = "none"
            /\ pc = "select"
    ]_vars

\* A session was left by `rescan`: its client was disconnected and the
\* next scan is running.
C20_Witness ==
  /\ pc = "scanning"
  /\ event = Event("line", << "rescan" >>)
  /\ ~link
  /\ client = "none"
  /\ Len(calls) >= 3
  /\ calls[1].op = "connect"
  /\ calls[Len(calls) - 1] = Call("disconnect", calls[1].arg)
  /\ \A i \in 1..Len(calls) : calls[i].op # "stop_notify"

====
